---- MODULE Spec2Model ----
(***************************************************************************)
(* The RFM pipeline of src/utils.py: load_and_merge_raw_data, clean_data,  *)
(* calculate_rfm_metrics and segment_customers, as a state machine over a  *)
(* heap of DataFrame objects.                                              *)
(*                                                                         *)
(* A DataFrame is a sequence of rows (records); variables of the caller    *)
(* hold references (indexes into heap), so that aliasing and in-place      *)
(* mutation are visible.  A nullable cell is <<>> (NaN / NaT / None) or    *)
(* <<v>>.  Instants are counted in half days; money in whole units, with   *)
(* exact arithmetic where pandas uses binary floating point.  The columns  *)
(* order_approved_at and order_delivered_customer_date are parsed like     *)
(* order_purchase_timestamp and read by nothing else; they are left out.   *)
(***************************************************************************)
EXTENDS Integers, Sequences, FiniteSets, TLC

VARIABLES pc, srcs, raw, heap, df_master, df_clean, rfm, out, err

vars == <<pc, srcs, raw, heap, df_master, df_clean, rfm, out, err>>

----
\* Bounds of the model.
MaxOrders == 2      \* orders in the raw data of the full pipeline
MaxCust == 5        \* customers in the cleaned tables of the scoring runs

\* Program constants.
DayLen == 2         \* dt.timedelta(days=1), in half days
Q == 5              \* q=5 of pd.qcut

NULL == <<>>
Some(v) == <<v>>
NoRef == 0

Sources == {"orders", "items", "customers"}
ReadOrder == <<"orders", "items", "customers">>

labels_best_high == <<1, 2, 3, 4, 5>>
labels_best_low == <<5, 4, 3, 2, 1>>

----
\* Generic sequence helpers.
RECURSIVE SumSeq(_)
SumSeq(s) == IF s = <<>> THEN 0 ELSE Head(s) + SumSeq(Tail(s))

RECURSIVE InsertSorted(_, _)
InsertSorted(v, s) ==
    IF s = <<>> THEN <<v>>
    ELSE IF v <= Head(s) THEN <<v>> \o s
    ELSE <<Head(s)>> \o InsertSorted(v, Tail(s))

RECURSIVE SortAsc(_)
SortAsc(s) == IF s = <<>> THEN <<>> ELSE InsertSorted(Head(s), SortAsc(Tail(s)))

MaxOf(S) == CHOOSE m \in S : \A x \in S : x <= m

----
\* load_and_merge_raw_data

\* pd.read_csv of the three files in turn: the first source that cannot be
\* read decides the exception.
FirstUnreadable(st) ==
    IF \A i \in 1..3 : st[ReadOrder[i]] = "ok" THEN 0
    ELSE CHOOSE i \in 1..3 :
            /\ st[ReadOrder[i]] # "ok"
            /\ \A j \in 1..(i - 1) : st[ReadOrder[j]] = "ok"

ReadError(st) ==
    LET i == FirstUnreadable(st)
    IN  IF i = 0 THEN "none"
        ELSE IF st[ReadOrder[i]] = "absent" THEN "FileNotFoundError"
        ELSE "PermissionError"

\* except FileNotFoundError
Caught(e) == e = "FileNotFoundError"

OrderItemRow(o, price, freight) ==
    [order_id |-> o.order_id, customer_id |-> o.customer_id,
     order_status |-> o.order_status,
     order_purchase_timestamp |-> o.order_purchase_timestamp,
     price |-> price, freight_value |-> freight]

RECURSIVE MatchItems(_, _)
MatchItems(o, items) ==
    IF items = <<>> THEN <<>>
    ELSE (IF Head(items).order_id = o.order_id
          THEN <<OrderItemRow(o, Head(items).price, Head(items).freight_value)>>
          ELSE <<>>) \o MatchItems(o, Tail(items))

\* df_orders.merge(df_items, on='order_id', how='left')
RECURSIVE LeftMerge(_, _)
LeftMerge(orders, items) ==
    IF orders = <<>> THEN <<>>
    ELSE LET m == MatchItems(Head(orders), items)
         IN  (IF m = <<>> THEN <<OrderItemRow(Head(orders), NULL, NULL)>> ELSE m)
             \o LeftMerge(Tail(orders), items)

RECURSIVE MatchCust(_, _)
MatchCust(t, custs) ==
    IF custs = <<>> THEN <<>>
    ELSE (IF Head(custs).customer_id = t.customer_id
          THEN <<[order_id |-> t.order_id, customer_id |-> t.customer_id,
                  order_status |-> t.order_status,
                  order_purchase_timestamp |-> t.order_purchase_timestamp,
                  price |-> t.price, freight_value |-> t.freight_value,
                  customer_unique_id |-> Head(custs).customer_unique_id]>>
          ELSE <<>>) \o MatchCust(t, Tail(custs))

\* temp.merge(df_cust, on='customer_id', how='inner')
RECURSIVE InnerMerge(_, _)
InnerMerge(temp, custs) ==
    IF temp = <<>> THEN <<>>
    ELSE MatchCust(Head(temp), custs) \o InnerMerge(Tail(temp), custs)

LoadAndMerge ==
    /\ pc = "start"
    /\ LET e == ReadError(srcs)
       IN  IF e = "none"
           THEN /\ heap' = Append(heap,
                       InnerMerge(LeftMerge(raw.orders, raw.items), raw.customers))
                /\ df_master' = Len(heap) + 1
                /\ pc' = "loaded"
                /\ err' = "none"
           ELSE IF Caught(e)
           THEN \* prints the message and returns None
                /\ pc' = "aborted"
                /\ err' = "SourceUnavailable"
                /\ UNCHANGED <<heap, df_master>>
           ELSE \* the exception leaves the function
                /\ pc' = "crashed"
                /\ err' = e
                /\ UNCHANGED <<heap, df_master>>
    /\ UNCHANGED <<srcs, raw, df_clean, rfm, out>>

----
\* clean_data

\* Variant: df_clean = df, the caller's object under a second name.
DfAlias(h, r) == [heap |-> h, ref |-> r]

\* df.copy()
DfCopy(h, r) == [heap |-> Append(h, h[r]), ref |-> Len(h) + 1]

\* pd.to_datetime(..., errors='coerce') of one cell: a readable text becomes
\* its instant, anything else NaT.
ToDatetime(cell) == IF cell.txt = "iso" THEN Some(cell.t) ELSE NULL

ParseDates(df) ==
    [i \in 1..Len(df) |->
        [df[i] EXCEPT !.order_purchase_timestamp = ToDatetime(@)]]

IsDelivered(r) == r.order_status = "delivered"

\* Variant: dropna(subset=['order_purchase_timestamp']).
HasRequiredTsOnly(r) == r.order_purchase_timestamp # NULL

\* dropna(subset=['order_purchase_timestamp', 'customer_unique_id'])
HasRequired(r) == r.order_purchase_timestamp # NULL /\ r.customer_unique_id # NULL

FillNa0(c) == IF c = NULL THEN Some(0) ELSE c

\* NaN-propagating float addition.
AddCells(a, b) == IF a = NULL \/ b = NULL THEN NULL ELSE Some(a[1] + b[1])

WithTotal(r) ==
    LET p == FillNa0(r.price)
        f == FillNa0(r.freight_value)
    IN  [order_id |-> r.order_id, customer_id |-> r.customer_id,
         order_status |-> r.order_status,
         order_purchase_timestamp |-> r.order_purchase_timestamp,
         price |-> p, freight_value |-> f,
         customer_unique_id |-> r.customer_unique_id,
         total_value |-> AddCells(p, f)]

\* Lines 65-75 on the parsed frame: each indexing returns a new frame.
FilterAndDerive(df) ==
    LET kept == SelectSeq(SelectSeq(df, IsDelivered), HasRequired)
    IN  [i \in 1..Len(kept) |-> WithTotal(kept[i])]

CleanData ==
    /\ pc = "loaded"
    /\ LET c == DfCopy(heap, df_master)
           h2 == [c.heap EXCEPT ![c.ref] = ParseDates(@)]
       IN  /\ heap' = Append(h2, FilterAndDerive(h2[c.ref]))
           /\ df_clean' = Len(h2) + 1
    /\ pc' = "cleaned"
    /\ UNCHANGED <<srcs, raw, df_master, rfm, out, err>>

----
\* calculate_rfm_metrics

Instants(df) ==
    {df[i].order_purchase_timestamp[1] :
        i \in {j \in 1..Len(df) : df[j].order_purchase_timestamp # NULL}}

\* Variant: "now" is the last purchase itself.
PresentDateNoShift(df) ==
    IF Instants(df) = {} THEN NULL ELSE Some(MaxOf(Instants(df)))

\* df['order_purchase_timestamp'].max() + dt.timedelta(days=1); NaT on an
\* empty column.
PresentDate(df) ==
    IF Instants(df) = {} THEN NULL ELSE Some(MaxOf(Instants(df)) + DayLen)

\* groupby('customer_unique_id'): the keys in ascending order, NaN keys dropped.
GroupKeys(df) ==
    LET ks == {df[i].customer_unique_id[1] :
                 i \in {j \in 1..Len(df) : df[j].customer_unique_id # NULL}}
        RECURSIVE Asc(_)
        Asc(S) == IF S = {} THEN <<>>
                  ELSE LET m == CHOOSE x \in S : \A y \in S : x <= y
                       IN  <<m>> \o Asc(S \ {m})
    IN  Asc(ks)

Group(df, k) ==
    LET In(r) == r.customer_unique_id = Some(k)
    IN  SelectSeq(df, In)

\* (present_date - x.max()).days: Timedelta.days floors to whole days.
RecencyOf(present, g) == (present[1] - MaxOf(Instants(g))) \div DayLen

\* Variant: 'count', one per row.
CountRows(g) == Len(g)

\* 'nunique': the number of distinct order identifiers of the group.
RECURSIVE Uniques(_)
Uniques(s) ==
    IF s = <<>> THEN <<>>
    ELSE IF \E i \in 1..Len(Tail(s)) : Tail(s)[i] = Head(s)
         THEN Uniques(Tail(s))
         ELSE <<Head(s)>> \o Uniques(Tail(s))

NUnique(g) == Len(Uniques([i \in 1..Len(g) |-> g[i].order_id]))

\* 'sum' of total_value, NaN skipped.
MonetaryOf(g) ==
    SumSeq([i \in 1..Len(g) |->
              IF g[i].total_value = NULL THEN 0 ELSE g[i].total_value[1]])

\* Lines 90-99: one row per customer-unique identifier.
Aggregate(df) ==
    LET present == PresentDate(df)
        keys == GroupKeys(df)
    IN  [i \in 1..Len(keys) |->
            LET g == Group(df, keys[i])
            IN  [customer_unique_id |-> keys[i],
                 Recency |-> RecencyOf(present, g),
                 Frequency |-> NUnique(g),
                 Monetary |-> MonetaryOf(g)]]

\* Variant: rank(method='min'), equal values share the lowest rank.
RankMin(f) ==
    [i \in 1..Len(f) |-> 1 + Cardinality({j \in 1..Len(f) : f[j] < f[i]})]

\* Series.rank(method='first'): ascending, equal values ranked in row order.
RankFirst(f) ==
    [i \in 1..Len(f) |->
        1 + Cardinality({j \in 1..Len(f) : f[j] < f[i]})
          + Cardinality({j \in 1..(i - 1) : f[j] = f[i]})]

\* The q+1 quantile edges of x (linear interpolation between the order
\* statistics at position k*(n-1)/q), each multiplied by Q to stay integral.
QEdges(x) ==
    LET s == SortAsc(x)
        n == Len(s)
    IN  [k \in 0..Q |->
            LET pos == k * (n - 1)
                lo == pos \div Q
                rem == pos % Q
            IN  IF rem = 0 THEN Q * s[lo + 1]
                ELSE Q * s[lo + 1] + rem * (s[lo + 2] - s[lo + 1])]

\* bins.searchsorted(x, side='left'), then include_lowest.
BinId(e, v) ==
    IF Q * v = e[0] THEN 1
    ELSE Cardinality({k \in 0..Q : e[k] < Q * v})

\* pd.qcut(x, q=5, labels=labels): duplicate edges (or the NaN edges of an
\* empty x) raise ValueError; a value outside every bin gets NaN.
Qcut(x, labels) ==
    IF x = <<>> THEN [error |-> "ValueError", values |-> <<>>]
    ELSE LET e == QEdges(x)
         IN  IF \E k \in 1..Q : e[k - 1] = e[k]
             THEN [error |-> "ValueError", values |-> <<>>]
             ELSE [error |-> "none",
                   values |-> [i \in 1..Len(x) |->
                       LET id == BinId(e, x[i])
                       IN  IF id = 0 \/ id = Q + 1 THEN NULL
                           ELSE Some(labels[id])]]

Column(t, c) == [i \in 1..Len(t) |-> t[i][c]]

\* Variant: the Monetary score is left out of the sum.
ScoreSumRF(r, f, m) == r + f

\* rfm['R_Score'].astype(int) + rfm['F_Score'].astype(int) + rfm['M_Score'].astype(int)
ScoreSum(r, f, m) == r + f + m

\* Lines 107-116 on the aggregated table: the first statement that raises
\* ends the call.
Score(agg) ==
    LET r == Qcut(Column(agg, "Recency"), labels_best_low)
        f == Qcut(RankFirst(Column(agg, "Frequency")), labels_best_high)
        m == Qcut(Column(agg, "Monetary"), labels_best_high)
    IN  IF r.error # "none" THEN [error |-> "ValueError:R_Score", table |-> <<>>]
        ELSE IF f.error # "none" THEN [error |-> "ValueError:F_Score", table |-> <<>>]
        ELSE IF m.error # "none" THEN [error |-> "ValueError:M_Score", table |-> <<>>]
        ELSE IF \E i \in 1..Len(agg) :
                    r.values[i] = NULL \/ f.values[i] = NULL \/ m.values[i] = NULL
        THEN \* astype(int) of a NaN category
             [error |-> "ValueError:RFM_Score_Sum", table |-> <<>>]
        ELSE [error |-> "none",
              table |-> [i \in 1..Len(agg) |->
                  [customer_unique_id |-> agg[i].customer_unique_id,
                   Recency |-> agg[i].Recency,
                   Frequency |-> agg[i].Frequency,
                   Monetary |-> agg[i].Monetary,
                   R_Score |-> r.values[i][1],
                   F_Score |-> f.values[i][1],
                   M_Score |-> m.values[i][1],
                   RFM_Score_Sum |->
                       ScoreSum(r.values[i][1], f.values[i][1], m.values[i][1])]]]

CalculateRfmMetrics ==
    /\ pc = "cleaned"
    /\ LET res == Score(Aggregate(heap[df_clean]))
       IN  IF res.error = "none"
           THEN /\ heap' = Append(heap, res.table)
                /\ rfm' = Len(heap) + 1
                /\ pc' = "scored"
                /\ err' = "none"
           ELSE /\ pc' = "crashed"
                /\ err' = res.error
                /\ UNCHANGED <<heap, rfm>>
    /\ UNCHANGED <<srcs, raw, df_master, df_clean, out>>

----
\* segment_customers

\* Variant: the Gold threshold is exclusive.
CategorizeStrict(score) ==
    IF score > 12 THEN "Gold"
    ELSE IF score >= 8 THEN "Silver"
    ELSE "Bronze"

\* _categorize
Categorize(score) ==
    IF score >= 12 THEN "Gold"
    ELSE IF score >= 8 THEN "Silver"
    ELSE "Bronze"

WithSegment(r) ==
    [customer_unique_id |-> r.customer_unique_id,
     Recency |-> r.Recency, Frequency |-> r.Frequency, Monetary |-> r.Monetary,
     R_Score |-> r.R_Score, F_Score |-> r.F_Score, M_Score |-> r.M_Score,
     RFM_Score_Sum |-> r.RFM_Score_Sum,
     Segment |-> Categorize(r.RFM_Score_Sum)]

\* rfm_df['Segment'] = ... writes the column into the caller's object, which
\* is also what is returned.
SegmentCustomers ==
    /\ pc = "scored"
    /\ heap' = [heap EXCEPT ![rfm] = [i \in 1..Len(@) |-> WithSegment(@[i])]]
    /\ out' = rfm
    /\ pc' = "done"
    /\ UNCHANGED <<srcs, raw, df_master, df_clean, rfm, err>>

----
\* The full pipeline, from the three raw sources.

Statuses == {"delivered", "canceled"}
RawStamps == {[txt |-> "bad", t |-> 0], [txt |-> "iso", t |-> 0], [txt |-> "iso", t |-> 3]}
ItemLists ==
    {<<>>,
     <<[price |-> Some(2), freight_value |-> Some(1)]>>,
     <<[price |-> Some(2), freight_value |-> NULL],
       [price |-> NULL, freight_value |-> Some(2)]>>}
\* No customer record, a record without a unique identifier, or one of two
\* persons.
CustRecords == {<<>>, <<NULL>>, <<Some(1)>>, <<Some(2)>>}

OrderProfiles ==
    [status : Statuses, stamp : RawStamps, items : ItemLists, cust : CustRecords]

ProfileSeqs(n) == UNION {[1..k -> OrderProfiles] : k \in 0..n}

\* The contents of the three files for a sequence of orders; every order has
\* its own order-scoped customer identifier.
RECURSIVE RawItems(_, _)
RawItems(ps, k) ==
    IF k > Len(ps) THEN <<>>
    ELSE [j \in 1..Len(ps[k].items) |->
             [order_id |-> k, price |-> ps[k].items[j].price,
              freight_value |-> ps[k].items[j].freight_value]]
         \o RawItems(ps, k + 1)

RECURSIVE RawCustomers(_, _)
RawCustomers(ps, k) ==
    IF k > Len(ps) THEN <<>>
    ELSE (IF ps[k].cust = <<>> THEN <<>>
          ELSE <<[customer_id |-> 10 + k, customer_unique_id |-> ps[k].cust[1]]>>)
         \o RawCustomers(ps, k + 1)

RawOf(ps) ==
    [orders |-> [k \in 1..Len(ps) |->
                    [order_id |-> k, customer_id |-> 10 + k,
                     order_status |-> ps[k].status,
                     order_purchase_timestamp |-> ps[k].stamp]],
     items |-> RawItems(ps, 1),
     customers |-> RawCustomers(ps, 1)]

AllReadable(st) == \A s \in Sources : st[s] = "ok"

Init ==
    /\ pc = "start"
    /\ srcs \in [Sources -> {"ok", "absent", "denied"}]
    /\ \E ps \in ProfileSeqs(MaxOrders) :
          /\ AllReadable(srcs) \/ Len(ps) <= 1
          /\ raw = RawOf(ps)
    /\ heap = <<>>
    /\ df_master = NoRef
    /\ df_clean = NoRef
    /\ rfm = NoRef
    /\ out = NoRef
    /\ err = "none"

Next ==
    \/ LoadAndMerge
    \/ CleanData
    \/ CalculateRfmMetrics
    \/ SegmentCustomers

Spec == Init /\ [][Next]_vars

----
\* calculate_rfm_metrics and segment_customers on cleaned tables of up to
\* MaxCust customers, listed in the order of their last purchase.

Gaps == {1, 2}
Shapes == [orders : {1, 2}, items : {1, 2}]

\* Customer c buys last at instant 1 plus the gaps before it.
LastPurchase(g, c) == 1 + SumSeq([i \in 1..(c - 1) |-> g[i]])

\* Order o of customer c: the first at the customer's last instant, a second
\* half a day earlier; item j costs j, carriage is 1 for the customers with an
\* odd identifier and free for the others.
CleanRow(c, o, j, t) ==
    [order_id |-> 10 * c + o, customer_id |-> 10 * c + o,
     order_status |-> "delivered",
     order_purchase_timestamp |-> Some(IF o = 1 THEN t ELSE t - 1),
     price |-> Some(j), freight_value |-> Some(c % 2),
     customer_unique_id |-> Some(c),
     total_value |-> Some(j + (c % 2))]

RECURSIVE CleanRows(_, _, _)
CleanRows(sh, g, c) ==
    IF c > Len(sh) THEN <<>>
    ELSE LET t == LastPurchase(g, c)
             n == sh[c].orders * sh[c].items
         IN  [i \in 1..n |->
                 CleanRow(c, 1 + ((i - 1) \div (sh[c].items)),
                          1 + ((i - 1) % (sh[c].items)), t)]
             \o CleanRows(sh, g, c + 1)

InitRfm ==
    /\ pc = "cleaned"
    /\ srcs = [s \in Sources |-> "ok"]
    /\ raw = [orders |-> <<>>, items |-> <<>>, customers |-> <<>>]
    /\ \E k \in 0..MaxCust :
          \E sh \in [1..k -> Shapes], g \in [1..(k - 1) -> Gaps] :
             heap = <<CleanRows(sh, g, 1)>>
    /\ df_master = NoRef
    /\ df_clean = 1
    /\ rfm = NoRef
    /\ out = NoRef
    /\ err = "none"

NextRfm ==
    \/ CalculateRfmMetrics
    \/ SegmentCustomers

SpecRfm == InitRfm /\ [][NextRfm]_vars

----
\* Properties.

Tiers == <<"Bronze", "Silver", "Gold">>
TierRank(s) == CHOOSE i \in 1..3 : Tiers[i] = s
Range(s) == {s[i] : i \in 1..Len(s)}

RECURSIVE SumTotals(_, _)
SumTotals(df, S) ==
    IF S = {} THEN 0
    ELSE LET i == CHOOSE x \in S : TRUE
         IN  df[i].total_value[1] + SumTotals(df, S \ {i})

RowsOf(df, k) == {i \in 1..Len(df) : df[i].customer_unique_id = Some(k)}

\* C1: every row of the table clean_data returns is "delivered", has a
\* purchase timestamp and a customer-unique identifier, and comes from an
\* order whose purchase timestamp could be parsed.
C1_CleanedRowsValid ==
    df_clean # NoRef =>
        \A i \in 1..Len(heap[df_clean]) :
            LET r == heap[df_clean][i]
            IN  /\ r.order_status = "delivered"
                /\ r.order_purchase_timestamp # NULL
                /\ r.customer_unique_id # NULL
                /\ \A k \in 1..Len(raw.orders) :
                      raw.orders[k].order_id = r.order_id =>
                          raw.orders[k].order_purchase_timestamp.txt = "iso"

C1_Witness ==
    /\ df_clean # NoRef
    /\ Len(heap[df_clean]) >= 1
    /\ \E k \in 1..Len(raw.orders) :
          /\ raw.orders[k].order_status = "delivered"
          /\ raw.orders[k].order_purchase_timestamp.txt = "bad"
    /\ \E i \in 1..Len(heap[df_master]) :
          /\ heap[df_master][i].order_status = "delivered"
          /\ heap[df_master][i].customer_unique_id = NULL

\* C2: when one of the three sources cannot be read, whatever the reason,
\* the load ends in the SourceUnavailable outcome, there is no merged
\* table and no later stage has run.
C2_AnyUnreadableIsSourceUnavailable ==
    (pc # "start" /\ ~AllReadable(srcs)) =>
        /\ pc = "aborted"
        /\ err = "SourceUnavailable"
        /\ df_master = NoRef
        /\ df_clean = NoRef

\* C3: in every table calculate_rfm_metrics returns, the three scores are
\* in 1..5 and RFM_Score_Sum is their sum, in 3..15.
C3_ScoresInRange ==
    rfm # NoRef =>
        \A i \in 1..Len(heap[rfm]) :
            LET r == heap[rfm][i]
            IN  /\ r.R_Score \in 1..5
                /\ r.F_Score \in 1..5
                /\ r.M_Score \in 1..5
                /\ r.RFM_Score_Sum = r.R_Score + r.F_Score + r.M_Score
                /\ r.RFM_Score_Sum \in 3..15

C3_Witness ==
    /\ rfm # NoRef
    /\ Len(heap[rfm]) >= 5
    /\ \E i \in 1..Len(heap[rfm]) : heap[rfm][i].RFM_Score_Sum >= 12
    /\ \E i \in 1..Len(heap[rfm]) : heap[rfm][i].RFM_Score_Sum <= 7
    /\ \E i, j \in 1..Len(heap[rfm]) :
          i # j /\ heap[rfm][i].Recency = heap[rfm][j].Recency

\* C4: a run in which Recency, Monetary or the Frequency ranks have fewer
\* than 5 distinct values ends in a scoring error, and a returned table has
\* all five buckets of every score populated.
C4_FewDistinctValuesFail ==
    LET agg == Aggregate(heap[df_clean])
        few == \/ Cardinality(Range(Column(agg, "Recency"))) < 5
               \/ Cardinality(Range(Column(agg, "Monetary"))) < 5
               \/ Cardinality(Range(RankFirst(Column(agg, "Frequency")))) < 5
    IN  /\ (df_clean # NoRef /\ pc # "cleaned" /\ few) => pc = "crashed"
        /\ rfm # NoRef =>
              \A c \in {"R_Score", "F_Score", "M_Score"} :
                  Range(Column(heap[rfm], c)) = 1..5

\* C5: when cleaning leaves no rows, the later stages do not fail.
C5_EmptyCleanedDoesNotFail ==
    (df_clean # NoRef /\ heap[df_clean] = <<>>) => pc # "crashed"

\* C6: Frequency is the number of distinct order identifiers among the
\* customer's cleaned rows and Monetary the total of total_value over all of
\* those rows; every customer of the cleaned table has its record.
C6_FrequencyCountsOrders ==
    rfm # NoRef =>
        LET df == heap[df_clean]
        IN  /\ \A i \in 1..Len(heap[rfm]) :
                  LET r == heap[rfm][i]
                      S == RowsOf(df, r.customer_unique_id)
                  IN  /\ r.Frequency = Cardinality({df[k].order_id : k \in S})
                      /\ r.Monetary = SumTotals(df, S)
            /\ \A k \in 1..Len(df) :
                  \E i \in 1..Len(heap[rfm]) :
                      Some(heap[rfm][i].customer_unique_id) = df[k].customer_unique_id

C6_Witness ==
    /\ rfm # NoRef
    /\ \E i \in 1..Len(heap[rfm]) :
          /\ heap[rfm][i].Frequency = 1
          /\ Cardinality(RowsOf(heap[df_clean], heap[rfm][i].customer_unique_id)) = 2
          /\ heap[rfm][i].Monetary = 5
    /\ \E i \in 1..Len(heap[rfm]) :
          /\ heap[rfm][i].Frequency = 2
          /\ Cardinality(RowsOf(heap[df_clean], heap[rfm][i].customer_unique_id)) = 4

\* C7: every Recency is at least 1, and a customer holding the latest
\* purchase of the cleaned table has Recency exactly 1.
C7_RecencyAtLeastOne ==
    rfm # NoRef =>
        LET df == heap[df_clean]
            last == MaxOf(Instants(df))
        IN  \A i \in 1..Len(heap[rfm]) :
               LET r == heap[rfm][i]
               IN  /\ r.Recency >= 1
                   /\ (\E k \in RowsOf(df, r.customer_unique_id) :
                          df[k].order_purchase_timestamp = Some(last))
                      => r.Recency = 1

C7_Witness ==
    /\ rfm # NoRef
    /\ \E i \in 1..Len(heap[rfm]) : heap[rfm][i].Recency = 1
    /\ \E i \in 1..Len(heap[rfm]) : heap[rfm][i].Recency >= 4

\* C8: the segment is Gold from 12, Silver from 8 to 11 and Bronze below 8,
\* in every row segment_customers labels; the rule is total over 3..15 and
\* one more point of sum never gets a lower tier.
C8_SegmentThresholds ==
    /\ out # NoRef =>
          \A i \in 1..Len(heap[out]) :
              LET r == heap[out][i]
              IN  /\ r.Segment \in {"Gold", "Silver", "Bronze"}
                  /\ r.Segment = "Gold" <=> r.RFM_Score_Sum >= 12
                  /\ r.Segment = "Silver" <=>
                        (r.RFM_Score_Sum >= 8 /\ r.RFM_Score_Sum < 12)
                  /\ r.Segment = "Bronze" <=> r.RFM_Score_Sum < 8
    /\ \A s \in 3..15 : Categorize(s) \in {"Gold", "Silver", "Bronze"}
    /\ \A s \in 3..14 : TierRank(Categorize(s)) <= TierRank(Categorize(s + 1))
    /\ Categorize(12) = "Gold" /\ Categorize(11) = "Silver"
    /\ Categorize(8) = "Silver" /\ Categorize(7) = "Bronze"

C8_Witness ==
    /\ out # NoRef
    /\ \E i \in 1..Len(heap[out]) :
          heap[out][i].RFM_Score_Sum = 12 /\ heap[out][i].Segment = "Gold"
    /\ \E i \in 1..Len(heap[out]) :
          heap[out][i].RFM_Score_Sum = 11 /\ heap[out][i].Segment = "Silver"
    /\ \E i \in 1..Len(heap[out]) :
          heap[out][i].RFM_Score_Sum <= 7 /\ heap[out][i].Segment = "Bronze"

IsCleanStep == pc = "loaded" /\ pc' = "cleaned"
IsRfmStep == pc = "cleaned" /\ pc' \in {"scored", "crashed"}
IsSegmentStep == pc = "scored" /\ pc' = "done"
OthersKept == \A r \in 1..Len(heap) : heap'[r] = heap[r]

\* C9 (as the claim states it): each of the three stages leaves the table it
\* received as it was and returns another table.
C9_EveryStageLeavesInput ==
    [][/\ IsCleanStep => (heap'[df_master] = heap[df_master] /\ df_clean' # df_master)
       /\ IsRfmStep => (heap'[df_clean] = heap[df_clean] /\ rfm' # df_clean)
       /\ IsSegmentStep => (heap'[rfm] = heap[rfm] /\ out' # rfm)]_vars

\* C9 (amended): clean_data and calculate_rfm_metrics leave the table they
\* received as it was and return a new table; segment_customers writes the
\* Segment column into the table it received, changes nothing else of it,
\* and returns that same table.
C9_StagesFrame ==
    [][/\ IsCleanStep => (OthersKept /\ df_clean' \notin 1..Len(heap))
       /\ IsRfmStep => (OthersKept /\ (pc' = "scored" => rfm' \notin 1..Len(heap)))
       /\ IsSegmentStep =>
             /\ out' = rfm
             /\ Len(heap') = Len(heap)
             /\ \A r \in 1..Len(heap) : r # rfm => heap'[r] = heap[r]
             /\ Len(heap'[rfm]) = Len(heap[rfm])
             /\ \A i \in 1..Len(heap[rfm]) :
                   /\ DOMAIN heap'[rfm][i] = DOMAIN heap[rfm][i] \cup {"Segment"}
                   /\ \A f \in DOMAIN heap[rfm][i] :
                         heap'[rfm][i][f] = heap[rfm][i][f]]_vars

C9_Witness ==
    /\ pc = "done"
    /\ out = rfm
    /\ heap[df_master][1].order_purchase_timestamp.txt = "iso"
    /\ heap[df_clean][1].order_purchase_timestamp # NULL
    /\ \E i \in 1..Len(heap[out]) : heap[out][i].Segment = "Gold"

\* C10: with at least 5 customers the Frequency scoring succeeds whatever
\* the ties (a run that fails has not failed there, and would not have had it
\* got there), the five F_Score buckets differ in population by at most one,
\* F_Score never decreases as Frequency grows, and among equal Frequencies
\* it never decreases along the rows.
C10_FrequencyRankQuintiles ==
    LET Pop(t, b) == Cardinality({i \in 1..Len(t) : t[i].F_Score = b})
    IN  /\ pc = "crashed" =>
              LET ranks == RankFirst(Column(Aggregate(heap[df_clean]), "Frequency"))
              IN  Len(ranks) >= 5 =>
                      /\ Qcut(ranks, labels_best_high).error = "none"
                      /\ err # "ValueError:F_Score"
        /\ (rfm # NoRef /\ Len(heap[rfm]) >= 5) =>
              LET t == heap[rfm]
              IN  /\ \A a, b \in 1..5 : Pop(t, a) - Pop(t, b) <= 1
                  /\ \A i, j \in 1..Len(t) :
                        t[i].Frequency < t[j].Frequency => t[i].F_Score <= t[j].F_Score
                  /\ \A i, j \in 1..Len(t) :
                        (i < j /\ t[i].Frequency = t[j].Frequency)
                            => t[i].F_Score <= t[j].F_Score

C10_Witness ==
    /\ rfm # NoRef
    /\ Len(heap[rfm]) >= 5
    /\ \E i, j \in 1..Len(heap[rfm]) :
          /\ heap[rfm][i].Frequency = heap[rfm][j].Frequency
          /\ heap[rfm][i].F_Score < heap[rfm][j].F_Score
    /\ \E i, j \in 1..Len(heap[rfm]) :
          heap[rfm][i].Frequency < heap[rfm][j].Frequency

====
